---------------------------- MODULE Spec2Model ----------------------------
(***************************************************************************)
(* Password strength engine of src/password_strength.py.                   *)
(*                                                                         *)
(* A password (a Python str) is a sequence of characters; a character is   *)
(* a one-character string, and a non-ASCII character is written by its     *)
(* code point ("U+4E2D").  The engine is a set of pure functions that keep *)
(* nothing between calls; the state of the model is the call a caller has  *)
(* made and not yet dropped: the function called (fn), its argument (arg,  *)
(* a record with one field named after the parameter), the functions it    *)
(* invoked (called) and the value returned (ret, a record with one field   *)
(* named after what is returned).                                          *)
(***************************************************************************)
EXTENDS Integers, Sequences, FiniteSets, TLC

VARIABLES fn, arg, called, ret

vars == <<fn, arg, called, ret>>

Range(s) == {s[i] : i \in 1..Len(s)}

Max(a, b) == IF a >= b THEN a ELSE b

Min(a, b) == IF a <= b THEN a ELSE b

(***************************************************************************)
(* Characters and the str methods the engine uses.                         *)
(***************************************************************************)
ascii_lowercase ==
    <<"a","b","c","d","e","f","g","h","i","j","k","l","m",
      "n","o","p","q","r","s","t","u","v","w","x","y","z">>

ascii_uppercase ==
    <<"A","B","C","D","E","F","G","H","I","J","K","L","M",
      "N","O","P","Q","R","S","T","U","V","W","X","Y","Z">>

ascii_digits == <<"0","1","2","3","4","5","6","7","8","9">>

\* Characters str.isalnum() accepts that have no case and are no digit
\* (U+4E2D is a CJK ideograph, category Lo).
CaselessLetters == {"U+4E2D"}

LowercaseLetters == Range(ascii_lowercase)

UppercaseLetters == Range(ascii_uppercase)

DecimalDigits == Range(ascii_digits)

islower(c) == c \in LowercaseLetters

isupper(c) == c \in UppercaseLetters

isdigit(c) == c \in DecimalDigits

isalnum(c) == islower(c) \/ isupper(c) \/ isdigit(c) \/ c \in CaselessLetters

\* str.lower(), character by character.
LowerChar(c) ==
    IF isupper(c)
    THEN ascii_lowercase[CHOOSE i \in 1..26 : ascii_uppercase[i] = c]
    ELSE c

lower(p) == [i \in 1..Len(p) |-> LowerChar(p[i])]

\* sub in s, for two strings.
IsSubstring(sub, s) ==
    \E i \in 0..(Len(s) - Len(sub)) : SubSeq(s, i + 1, i + Len(sub)) = sub

\* s[::-1]
Reverse(s) == [i \in 1..Len(s) |-> s[Len(s) + 1 - i]]

(***************************************************************************)
(* Module constants.                                                       *)
(***************************************************************************)
COMMON_WORDS ==
    { <<"p","a","s","s","w","o","r","d">>, <<"a","d","m","i","n">>,
      <<"w","e","l","c","o","m","e">>, <<"q","w","e","r","t","y">>,
      <<"i","l","o","v","e","y","o","u">>, <<"l","e","t","m","e","i","n">>,
      <<"l","o","g","i","n">>, <<"u","s","e","r">>, <<"t","e","s","t">>,
      <<"s","e","c","r","e","t">>, <<"d","r","a","g","o","n">>,
      <<"f","o","o","t","b","a","l","l">>, <<"m","o","n","k","e","y">> }

LEET_MAP(c) ==
    CASE c = "@" -> "a"
      [] c = "$" -> "s"
      [] c = "!" -> "i"
      [] c = "1" -> "l"
      [] c = "0" -> "o"
      [] c = "3" -> "e"
      [] c = "5" -> "s"
      [] c = "7" -> "t"
      [] OTHER -> c

\* str.translate(LEET_MAP)
translate(p) == [i \in 1..Len(p) |-> LEET_MAP(p[i])]

SEQUENCES ==
    << ascii_lowercase,
       ascii_uppercase,
       ascii_digits,
       <<"q","w","e","r","t","y","u","i","o","p","a","s","d",
         "f","g","h","j","k","l","z","x","c","v","b","n","m">> >>

(***************************************************************************)
(* Character classifier.                                                   *)
(***************************************************************************)
_has_lower(p) == \E i \in 1..Len(p) : islower(p[i])

_has_upper(p) == \E i \in 1..Len(p) : isupper(p[i])

_has_digit(p) == \E i \in 1..Len(p) : isdigit(p[i])

_has_symbol(p) == \E i \in 1..Len(p) : ~isalnum(p[i])

_char_pool_size(p) ==
    LET pool0 == 0
        pool1 == pool0 + (IF _has_lower(p) THEN 26 ELSE 0)
        pool2 == pool1 + (IF _has_upper(p) THEN 26 ELSE 0)
        pool3 == pool2 + (IF _has_digit(p) THEN 10 ELSE 0)
        pool4 == pool3 + (IF _has_symbol(p) THEN 33 ELSE 0)
    IN  Max(pool4, 1)

(***************************************************************************)
(* Pattern detectors.                                                      *)
(***************************************************************************)
\* A variant of ChunkCount that counts a window once when its chunk or its
\* reverse occurs.
ChunkCountEither(seq, i, lowered) ==
    LET chunk == SubSeq(seq, i + 1, i + 3)
    IN  IF IsSubstring(chunk, lowered) \/ IsSubstring(Reverse(chunk), lowered)
        THEN 1 ELSE 0

\* The contribution of window i of seq: one for the chunk, one for its
\* reverse, each looked up in the lowercased password.
ChunkCount(seq, i, lowered) ==
    LET chunk == SubSeq(seq, i + 1, i + 3)
    IN  (IF IsSubstring(chunk, lowered) THEN 1 ELSE 0)
        + (IF IsSubstring(Reverse(chunk), lowered) THEN 1 ELSE 0)

\* The loop over the windows 0 .. len(seq)-3 of seq (range(len(seq)-2));
\* count[i] is the count after i windows.
SeqCount(seq, lowered) ==
    LET count[i \in 0..(Len(seq) - 2)] ==
            IF i = 0 THEN 0
            ELSE count[i - 1] + ChunkCount(seq, i - 1, lowered)
    IN  count[Len(seq) - 2]

\* The loop over SEQUENCES; count[k] is the count after k of them.
_find_sequences(p) ==
    LET lowered == lower(p)
        count[k \in 0..Len(SEQUENCES)] ==
            IF k = 0 THEN 0
            ELSE count[k - 1] + SeqCount(SEQUENCES[k], lowered)
    IN  count[Len(SEQUENCES)]

\* The regular expression's "." : any character but a newline.
Dot(c) == c # "\n"

\* re.search(r"(.)\1{2,}", p)
SearchRun(p) ==
    \E i \in 1..(Len(p) - 2) :
        Dot(p[i]) /\ p[i + 1] = p[i] /\ p[i + 2] = p[i]

\* re.search(r"(..)\1{1,}", p)
SearchBigram(p) ==
    \E i \in 1..(Len(p) - 3) :
        /\ Dot(p[i]) /\ Dot(p[i + 1])
        /\ SubSeq(p, i + 2, i + 3) = SubSeq(p, i, i + 1)

\* re.search(r"(...)\1{1,}", p)
SearchTrigram(p) ==
    \E i \in 1..(Len(p) - 5) :
        /\ Dot(p[i]) /\ Dot(p[i + 1]) /\ Dot(p[i + 2])
        /\ SubSeq(p, i + 3, i + 5) = SubSeq(p, i, i + 2)

_repetition_penalty(p) ==
    (IF SearchRun(p) THEN 1 ELSE 0)
    + (IF SearchBigram(p) THEN 1 ELSE 0)
    + (IF SearchTrigram(p) THEN 1 ELSE 0)

_dictionary_hits(p) ==
    LET plain == lower(p)
        norm == translate(plain)
    IN  Cardinality({w \in COMMON_WORDS :
                        IsSubstring(w, plain) \/ IsSubstring(w, norm)})

(***************************************************************************)
(* Numbers.  A float of the engine is a real number here.  The entropy is  *)
(* kept as the product it is computed from, [n |-> len(p), pool |-> pool]  *)
(* standing for n * log2(pool), and a duration as a decimal fraction       *)
(* [m |-> digits, e |-> k] standing for m / 10^k, where digits is a        *)
(* natural number of any size written as its decimal digits, the least     *)
(* significant first (<<>> is zero).  The engine's doubles agree with      *)
(* these reals to about 15 significant digits: a string printed for a      *)
(* duration of more digits can differ from the engine's in its last        *)
(* digits, and a quotient halfway between two hundredths is printed as     *)
(* either.                                                                 *)
(***************************************************************************)
\* math.log2 on the pool sizes _char_pool_size can return, in millionths.
Log2Micro(pool) ==
    CASE pool = 1 -> 0
      [] pool = 10 -> 3321928
      [] pool = 26 -> 4700440
      [] pool = 33 -> 5044394
      [] pool = 36 -> 5169925
      [] pool = 43 -> 5426265
      [] pool = 52 -> 5700440
      [] pool = 59 -> 5882643
      [] pool = 62 -> 5954196
      [] pool = 69 -> 6108524
      [] pool = 85 -> 6409391
      [] pool = 95 -> 6569856

\* The value of an entropy, in millionths of a bit.
BitsMicro(bits) == bits.n * Log2Micro(bits.pool)

\* The literal 0 passed as an entropy.
ZeroBits == [n |-> 0, pool |-> 1]

\* a without its leading zeros.
Strip(a) ==
    LET nz == {i \in 1..Len(a) : a[i] # 0}
    IN  IF nz = {} THEN <<>>
        ELSE SubSeq(a, 1, CHOOSE i \in nz : \A j \in nz : j <= i)

\* The digits of a natural number below 2^31.
Dec(k) == Strip([i \in 1..10 |-> (k \div 10^(i - 1)) % 10])

\* a * k, for a small k > 0; carry[i] is the carry out of digit i.
MulSmall(a, k) ==
    LET carry[i \in 0..Len(a)] ==
            IF i = 0 THEN 0 ELSE (a[i] * k + carry[i - 1]) \div 10
    IN  [i \in 1..Len(a) |-> (a[i] * k + carry[i - 1]) % 10]
        \o Dec(carry[Len(a)])

\* base ^ n
Pow(base, n) ==
    LET power[i \in 0..n] ==
            IF i = 0 THEN <<1>> ELSE MulSmall(power[i - 1], base)
    IN  power[n]

\* a * 10^k
ShiftLeft(a, k) == IF a = <<>> THEN <<>> ELSE [i \in 1..k |-> 0] \o a

\* a \div 10^k, and whether nothing was cut off.
ShiftRight(a, k) ==
    [q |-> SubSeq(a, k + 1, Len(a)),
     exact |-> \A i \in 1..Min(k, Len(a)) : a[i] = 0]

\* a \div d for a small d, and whether the division is exact: long
\* division, rem[i] being the remainder left by the digits i and above.
DivSmall(a, d) ==
    LET rem[i \in 1..(Len(a) + 1)] ==
            IF i = Len(a) + 1 THEN 0 ELSE (rem[i + 1] * 10 + a[i]) % d
    IN  [q |-> Strip([i \in 1..Len(a) |-> (rem[i + 1] * 10 + a[i]) \div d]),
         exact |-> rem[1] = 0]

\* a < b
Less(a, b) ==
    IF Len(a) # Len(b) THEN Len(a) < Len(b)
    ELSE LET diff == {i \in 1..Len(a) : a[i] # b[i]}
         IN  /\ diff # {}
             /\ LET top == CHOOSE i \in diff : \A j \in diff : j <= i
                IN  a[top] < b[top]

\* a + 1
Inc(a) ==
    LET not9 == {i \in 1..Len(a) : a[i] # 9}
    IN  IF not9 = {} THEN [i \in 1..Len(a) |-> 0] \o <<1>>
        ELSE LET first == CHOOSE i \in not9 : \A j \in not9 : i <= j
             IN  [i \in 1..Len(a) |->
                     IF i < first THEN 0
                     ELSE IF i = first THEN a[i] + 1 ELSE a[i]]

\* The digits of a as a string, the most significant first; str[i] is the
\* string of the digits i and above.
Str(a) ==
    LET str[i \in 1..(Len(a) + 1)] ==
            IF i = Len(a) + 1 THEN ""
            ELSE str[i + 1] \o ascii_digits[a[i] + 1]
    IN  str[1]

\* format(x, ".2f") of x = h / 100.
Format2f(h) ==
    LET d == h \o <<0, 0, 0>>
        int == SubSeq(h, 3, Len(h))
    IN  (IF int = <<>> THEN "0" ELSE Str(int))
        \o "." \o ascii_digits[d[2] + 1] \o ascii_digits[d[1] + 1]

(***************************************************************************)
(* Entropy estimator and crack-time projector.                             *)
(***************************************************************************)
estimate_entropy_bits(p) == [n |-> Len(p), pool |-> _char_pool_size(p)]

\* The default guesses_per_sec, 1e10, as a power of ten.
guesses_per_sec_exp10 == 10

\* x / 10^k, for a decimal fraction x.
DivPow10(x, k) == [m |-> x.m, e |-> x.e + k]

\* A variant of expected_guesses with the floor 1 on the exponent:
\* 2 ** max(bits - 1, 1).
expected_guesses_floor_one(bits) ==
    IF BitsMicro(bits) - 1000000 <= 1000000
    THEN [m |-> <<2>>, e |-> 0]
    ELSE [m |-> MulSmall(Pow(bits.pool, bits.n), 5), e |-> 1]

\* 2 ** max(bits - 1, 0): 1 when bits <= 1, else pool^n / 2 = 5 * pool^n / 10.
expected_guesses(bits) ==
    IF BitsMicro(bits) - 1000000 <= 0
    THEN [m |-> <<1>>, e |-> 0]
    ELSE [m |-> MulSmall(Pow(bits.pool, bits.n), 5), e |-> 1]

\* The list of units; a span is span * 10^zeros (century: 3155760000).
units ==
    << [name |-> "sec", span |-> 1, zeros |-> 0],
       [name |-> "min", span |-> 60, zeros |-> 0],
       [name |-> "hr", span |-> 3600, zeros |-> 0],
       [name |-> "day", span |-> 86400, zeros |-> 0],
       [name |-> "yr", span |-> 31557600, zeros |-> 0],
       [name |-> "century", span |-> 31557600, zeros |-> 2] >>

\* A variant of BelowCeiling that takes the ceiling itself: s <= span * 60.
AtMostCeiling(s, u) ==
    ~Less(ShiftLeft(MulSmall(Dec(u.span), 60), u.zeros + s.e), s.m)

\* s < span*60
BelowCeiling(s, u) ==
    Less(s.m, ShiftLeft(MulSmall(Dec(u.span), 60), u.zeros + s.e))

\* f"{s/span:.2f}": the strings it can be.  The quotient is cut to thousandths
\* and rounded to hundredths; when it lies exactly halfway between two
\* hundredths, the double the engine holds lies on either side of it, and
\* the string is either of the two.
FormatQuotient(s, u) ==
    LET k == s.e + u.zeros - 3
        num == IF k <= 0 THEN [q |-> ShiftLeft(s.m, 0 - k), exact |-> TRUE]
               ELSE ShiftRight(s.m, k)
        quo == DivSmall(num.q, u.span)
        exact == num.exact /\ quo.exact
        last == IF quo.q = <<>> THEN 0 ELSE quo.q[1]
        h == IF quo.q = <<>> THEN <<>> ELSE Tail(quo.q)
    IN  IF last = 5 /\ exact THEN {Format2f(h), Format2f(Inc(h))}
        ELSE IF last >= 5 THEN {Format2f(Inc(h))}
        ELSE {Format2f(h)}

\* The strings humanize(s) can return.  The loop over units returns at the
\* first unit with s < span*60, or at century; the return after the loop is
\* for a list without century.
humanize(s) ==
    LET stops == {k \in 1..Len(units) :
                     BelowCeiling(s, units[k]) \/ units[k].name = "century"}
    IN  IF stops = {}
        THEN {x \o " sec" : x \in FormatQuotient(s, units[1])}
        ELSE LET k == CHOOSE i \in stops : \A j \in stops : i <= j
             IN  {x \o " " \o units[k].name : x \in FormatQuotient(s, units[k])}

\* The dictionaries crack_time_estimates(bits) can return.
crack_time_estimates(bits) ==
    LET guesses == expected_guesses(bits)
        seconds == DivPow10(guesses, guesses_per_sec_exp10)
    IN  {[offline_fast |-> fast, online_slow |-> slow] :
            fast \in humanize(seconds),
            slow \in humanize(DivPow10(guesses, 2))}

(***************************************************************************)
(* Score aggregator.                                                       *)
(***************************************************************************)
\* A variant of LengthScore whose bands start one character later.
LengthScoreLate(L) ==
    IF L <= 6 THEN 0
    ELSE IF L <= 8 THEN 10
    ELSE IF L <= 12 THEN 20
    ELSE IF L <= 16 THEN 30
    ELSE 40

\* The length band, lines 102-107.
LengthScore(L) ==
    IF L < 6 THEN 0
    ELSE IF L < 8 THEN 10
    ELSE IF L < 12 THEN 20
    ELSE IF L < 16 THEN 30
    ELSE 40

\* The hyphen of "8-12" stands for the en dash (U+2013) of line 103.
LengthFeedback(L) ==
    IF L < 6 THEN <<"Use at least 8-12 characters.">> ELSE <<>>

Varieties(p) ==
    (IF _has_lower(p) THEN 1 ELSE 0) + (IF _has_upper(p) THEN 1 ELSE 0)
    + (IF _has_digit(p) THEN 1 ELSE 0) + (IF _has_symbol(p) THEN 1 ELSE 0)

VarietyScore(varieties) == <<0, 10, 20, 30, 35>>[varieties + 1]

\* min(int(bits / 4), 25)
EntropyBonus(bits) == Min(BitsMicro(bits) \div 4000000, 25)

Penalty(seqs, reps, dicts) == seqs * 8 + reps * 8 + dicts * 12

\* A variant of Clamp without the floor: min(100, x).
ClampAbove(x) == Min(100, x)

\* max(0, min(100, score - penalty))
Clamp(x) == Max(0, Min(100, x))

Label(score) ==
    IF score < 20 THEN "Very Weak"
    ELSE IF score < 40 THEN "Weak"
    ELSE IF score < 60 THEN "Moderate"
    ELSE IF score < 80 THEN "Strong"
    ELSE "Excellent"

\* A variant of PatternFeedback that asks for lowercase before uppercase.
PatternFeedbackLowerFirst(p, seqs, reps, dicts) ==
    (IF seqs # 0
     THEN <<"Avoid sequential patterns (e.g., abc, 123, qwerty).">> ELSE <<>>)
    \o (IF reps # 0
        THEN <<"Avoid repeated patterns like aaa or abcabc.">> ELSE <<>>)
    \o (IF dicts # 0
        THEN <<"Avoid common or leetspeak words (e.g., 'p@ssw0rd').">>
        ELSE <<>>)
    \o (IF ~_has_lower(p) THEN <<"Add lowercase letters.">> ELSE <<>>)
    \o (IF ~_has_upper(p) THEN <<"Add uppercase letters.">> ELSE <<>>)
    \o (IF ~_has_digit(p) THEN <<"Add digits.">> ELSE <<>>)
    \o (IF ~_has_symbol(p) THEN <<"Add symbols (e.g., !@#$).">> ELSE <<>>)

\* The appends of lines 124-130.
PatternFeedback(p, seqs, reps, dicts) ==
    (IF seqs # 0
     THEN <<"Avoid sequential patterns (e.g., abc, 123, qwerty).">> ELSE <<>>)
    \o (IF reps # 0
        THEN <<"Avoid repeated patterns like aaa or abcabc.">> ELSE <<>>)
    \o (IF dicts # 0
        THEN <<"Avoid common or leetspeak words (e.g., 'p@ssw0rd').">>
        ELSE <<>>)
    \o (IF ~_has_upper(p) THEN <<"Add uppercase letters.">> ELSE <<>>)
    \o (IF ~_has_lower(p) THEN <<"Add lowercase letters.">> ELSE <<>>)
    \o (IF ~_has_digit(p) THEN <<"Add digits.">> ELSE <<>>)
    \o (IF ~_has_symbol(p) THEN <<"Add symbols (e.g., !@#$).">> ELSE <<>>)

\* round(bits, 2), in hundredths of a bit.
Round2(bits) == (BitsMicro(bits) + 5000) \div 10000

\* A variant of EmptyResult that also advises on the length.
EmptyResultWithAdvice(estimates) ==
    [score |-> 0, label |-> "Very Weak", bits |-> 0,
     feedback |-> <<"Password is empty.", "Use at least 8-12 characters.">>,
     estimates |-> estimates]

\* The result for the empty password, lines 91-95, given its estimates.
EmptyResult(estimates) ==
    [score |-> 0, label |-> "Very Weak", bits |-> 0,
     feedback |-> <<"Password is empty.">>,
     estimates |-> estimates]

\* The results score_password(p) can return; their bits are in hundredths
\* of a bit.
score_password(p) ==
    IF p = <<>>
    THEN {EmptyResult(estimates) : estimates \in crack_time_estimates(ZeroBits)}
    ELSE
    LET bits == estimate_entropy_bits(p)
        L == Len(p)
        raw == LengthScore(L) + VarietyScore(Varieties(p)) + EntropyBonus(bits)
        seqs == _find_sequences(p)
        reps == _repetition_penalty(p)
        dicts == _dictionary_hits(p)
        penalty == Penalty(seqs, reps, dicts)
        score == Clamp(raw - penalty)
        label == Label(score)
        feedback == LengthFeedback(L) \o PatternFeedback(p, seqs, reps, dicts)
    IN  {[score |-> score,
          label |-> label,
          bits |-> Round2(bits),
          penalty_detail |->
              [sequences |-> seqs, repeats |-> reps, dictionary_hits |-> dicts],
          feedback |-> feedback,
          estimates |-> estimates] : estimates \in crack_time_estimates(bits)}

\* The functions score_password calls on p.
ScoreCalls(p) ==
    IF p = <<>> THEN {"crack_time_estimates"}
    ELSE {"estimate_entropy_bits", "_has_lower", "_has_upper", "_has_digit",
          "_has_symbol", "_find_sequences", "_repetition_penalty",
          "_dictionary_hits", "crack_time_estimates"}

(***************************************************************************)
(* The inputs of the model.                                                *)
(***************************************************************************)
\* The longest password enumerated character by character.
MaxLen == 3

\* A lowercase run, an uppercase letter, a digit, a symbol (the newline) and
\* a letter without case.
Chars == {"a", "b", "c", "C", "1", "\n", "U+4E2D"}

\* Every string over Chars of length at most MaxLen.
Strings == UNION {[1..n -> Chars] : n \in 0..MaxLen}

\* Passwords of the kinds the detectors tell apart.
Examples ==
    { <<"P","a","s","s","w","o","r","d","1","2","3">>,
      <<"T","a","c","o","!","R","i","v","e","r","7","-","M","o","o","n","s">>,
      <<"p","@","s","s","w","0","r","d">>,
      <<"x","k","4","#","L","m","9","@">>,
      <<"a","b","c","d","e","f">>,
      <<"a","b","c","b","a">>,
      <<"a","a","a","a">>,
      <<"a","b","a","b">>,
      <<"a","b","c","a","b","c">>,
      <<"a","a","a","a","b","c","a","b","c","a","b","a","b">>,
      <<"1","2","3","4","5","6","7","8">> }

\* Two pattern-free strings: of four character classes, and of one.
Fillers ==
    { <<"T","a","c","o","!","R","i","v","e","r","7","-","M","o","o","n","s">>,
      <<"x","k","h","m","v","q","z","t","r","g","w","j","b","n","l">> }

\* The lengths that bring a short string into each length band.
FillLens == {4, 6, 10, 15}

Suffixes == {SubSeq(f, 1, k) : f \in Fillers, k \in FillLens}

\* The longest string a suffix is put after.
MaxPrefix == 2

Prefixes == {s \in Strings : Len(s) <= MaxPrefix}

Passwords ==
    Strings \cup Examples \cup {s \o x : s \in Prefixes, x \in Suffixes}

Entropies == {estimate_entropy_bits(p) : p \in Strings \cup Examples}

\* How far around each ceiling the durations are enumerated.
MaxDelta == 20

\* The ceilings 60 * span of the units below century.
Ceilings == {60, 3600, 216000, 5184000, 1893456000}

Around(t) == {d \in (t - MaxDelta)..(t + MaxDelta) : d >= 0}

\* Whole seconds around each ceiling, and thousandths of a second around
\* zero and one minute.
Durations ==
    {[m |-> Dec(k), e |-> 0] : k \in UNION {Around(t) : t \in Ceilings \cup {0}}}
    \cup {[m |-> Dec(k), e |-> 3] : k \in Around(0) \cup Around(60000)}

(***************************************************************************)
(* The calls.                                                              *)
(***************************************************************************)
\* No call is outstanding.
NoValue == [none |-> TRUE]

Idle ==
    /\ fn = "none"
    /\ arg = NoValue
    /\ called = {}
    /\ ret = NoValue

Init == Idle

CallScorePassword ==
    /\ fn = "none"
    /\ \E p \in Passwords :
        /\ fn' = "score_password"
        /\ arg' = [p |-> p]
        /\ called' = ScoreCalls(p)
        /\ \E result \in score_password(p) : ret' = [result |-> result]

CallFindSequences ==
    /\ fn = "none"
    /\ \E p \in Strings \cup Examples :
        /\ fn' = "_find_sequences"
        /\ arg' = [p |-> p]
        /\ called' = {}
        /\ ret' = [count |-> _find_sequences(p)]

CallRepetitionPenalty ==
    /\ fn = "none"
    /\ \E p \in Strings \cup Examples :
        /\ fn' = "_repetition_penalty"
        /\ arg' = [p |-> p]
        /\ called' = {}
        /\ ret' = [penalties |-> _repetition_penalty(p)]

CallEstimateEntropyBits ==
    /\ fn = "none"
    /\ \E p \in Strings \cup Examples :
        /\ fn' = "estimate_entropy_bits"
        /\ arg' = [p |-> p]
        /\ called' = {"_char_pool_size"}
        /\ ret' = [bits |-> estimate_entropy_bits(p)]

CallCrackTimeEstimates ==
    /\ fn = "none"
    /\ \E bits \in Entropies \cup {ZeroBits} :
        /\ fn' = "crack_time_estimates"
        /\ arg' = [bits |-> bits]
        /\ called' = {"humanize"}
        /\ \E estimates \in crack_time_estimates(bits) :
              ret' = [estimates |-> estimates]

CallHumanize ==
    /\ fn = "none"
    /\ \E s \in Durations :
        /\ fn' = "humanize"
        /\ arg' = [s |-> s]
        /\ called' = {}
        /\ \E text \in humanize(s) : ret' = [text |-> text]

\* The caller drops the result; nothing of the call is kept.
Return ==
    /\ fn # "none"
    /\ fn' = "none"
    /\ arg' = NoValue
    /\ called' = {}
    /\ ret' = NoValue

Next ==
    \/ CallScorePassword
    \/ CallFindSequences
    \/ CallRepetitionPenalty
    \/ CallEstimateEntropyBits
    \/ CallCrackTimeEstimates
    \/ CallHumanize
    \/ Return

Spec == Init /\ [][Next]_vars

(***************************************************************************)
(* The claims.                                                             *)
(***************************************************************************)
Password123 == <<"P","a","s","s","w","o","r","d","1","2","3">>

TacoRiver == <<"T","a","c","o","!","R","i","v","e","r","7","-","M","o","o","n","s">>

Detectors == {"_find_sequences", "_repetition_penalty", "_dictionary_hits"}

\* The label the thresholds give a score.
ThresholdLabel(score) ==
    CASE score < 20 -> "Very Weak"
      [] score >= 20 /\ score < 40 -> "Weak"
      [] score >= 40 /\ score < 60 -> "Moderate"
      [] score >= 60 /\ score < 80 -> "Strong"
      [] score >= 80 -> "Excellent"

\* C1: whatever the password, empty or not, the score returned by
\* score_password is an integer from 0 to 100 and the label is the one the
\* thresholds 20, 40, 60, 80 give that score.
Thm_C1_ScoreBoundedLabelByThreshold ==
    fn = "score_password" =>
        /\ ret.result.score \in 0..100
        /\ ret.result.label = ThresholdLabel(ret.result.score)

\* C1's case: a password whose patterns cost more than it earns, scored 0.
Wit_C1_ClampedAtZero ==
    /\ fn = "score_password"
    /\ arg.p = <<"a","b","c","d","e","f">>
    /\ ret.result.score = 0
    /\ ret.result.label = "Very Weak"

\* C2: score_password on the empty string returns score 0, label Very Weak,
\* bits 0.0, exactly one feedback item and the estimates of
\* crack_time_estimates(0), and runs none of the three detectors.
Thm_C2_EmptyShortCircuit ==
    (fn = "score_password" /\ arg.p = <<>>) =>
        /\ ret.result.score = 0
        /\ ret.result.label = "Very Weak"
        /\ ret.result.bits = 0
        /\ Len(ret.result.feedback) = 1
        /\ ret.result.estimates \in crack_time_estimates(ZeroBits)
        /\ called \cap Detectors = {}

\* C2's case: score_password has returned for the empty string.
Wit_C2_EmptyScored ==
    /\ fn = "score_password"
    /\ arg.p = <<>>
    /\ ret.result.feedback = <<"Password is empty.">>

\* C3: whatever the password, the empty one included, the result of
\* score_password holds the penalty detail, three counts that are natural
\* numbers, beside score, label, bits, feedback and estimates.
Cex_C3_PenaltyDetailAlways ==
    fn = "score_password" =>
        /\ {"score", "label", "bits", "feedback", "estimates", "penalty_detail"}
               \subseteq DOMAIN ret.result
        /\ ret.result.penalty_detail.sequences \in Nat
        /\ ret.result.penalty_detail.repeats \in Nat
        /\ ret.result.penalty_detail.dictionary_hits \in Nat

\* C4 as stated: at 0 bits crack_time_estimates has zero expected guesses and
\* returns "0.00 sec" for both scenarios.
Cex_C4_ZeroGuessesZeroSeconds ==
    (fn = "crack_time_estimates" /\ BitsMicro(arg.bits) = 0) =>
        /\ expected_guesses(arg.bits).m = <<>>
        /\ ret.estimates.offline_fast = "0.00 sec"
        /\ ret.estimates.online_slow = "0.00 sec"

\* C4, amended: at 0 bits crack_time_estimates has one expected guess and
\* returns "0.00 sec" for offline_fast and "0.01 sec" for online_slow.
Thm_C4_OneGuessAtZeroBits ==
    (fn = "crack_time_estimates" /\ BitsMicro(arg.bits) = 0) =>
        /\ expected_guesses(arg.bits) = [m |-> <<1>>, e |-> 0]
        /\ ret.estimates.offline_fast = "0.00 sec"
        /\ ret.estimates.online_slow = "0.01 sec"

\* C4's case: crack_time_estimates has returned for the entropy 0.
Wit_C4_ZeroBitsEstimated ==
    /\ fn = "crack_time_estimates"
    /\ arg.bits = ZeroBits
    /\ ret.estimates.online_slow = "0.01 sec"

\* The points of the length bands.
BandScore(L) ==
    CASE L < 6 -> 0
      [] L \in 6..7 -> 10
      [] L \in 8..11 -> 20
      [] L \in 12..15 -> 30
      [] L >= 16 -> 40

\* The character classes present in p.
ClassesPresent(p) ==
    {c \in {"lower", "upper", "digit", "symbol"} :
        \/ c = "lower" /\ _has_lower(p)
        \/ c = "upper" /\ _has_upper(p)
        \/ c = "digit" /\ _has_digit(p)
        \/ c = "symbol" /\ _has_symbol(p)}

\* The points of the number of classes present.
ClassScore(n) ==
    CASE n = 0 -> 0 [] n = 1 -> 10 [] n = 2 -> 20 [] n = 3 -> 30 [] n = 4 -> 35

\* C5: for a non-empty password the score is
\* max(0, min(100, lengthScore + varietyScore + bonus - penalty)), with the
\* length bands 0/10/20/30/40, the class points 0/10/20/30/35, the bonus
\* min(floor(bits/4), 25) and the penalty 8*sequences + 8*repetitions +
\* 12*dictionaryHits over the counts of the penalty detail; "Password123" is
\* labelled Very Weak or Weak and "Taco!River7-Moons" Strong or Excellent.
Thm_C5_ScoreFormula ==
    (fn = "score_password" /\ arg.p # <<>>) =>
        LET r == ret.result
            d == r.penalty_detail
            bonus == Min(BitsMicro(estimate_entropy_bits(arg.p)) \div 4000000, 25)
            penalty == 8 * d.sequences + 8 * d.repeats + 12 * d.dictionary_hits
            total == BandScore(Len(arg.p))
                     + ClassScore(Cardinality(ClassesPresent(arg.p)))
                     + bonus - penalty
        IN  /\ r.score = Max(0, Min(100, total))
            /\ arg.p = Password123 => r.label \in {"Very Weak", "Weak"}
            /\ arg.p = TacoRiver => r.label \in {"Strong", "Excellent"}

\* C5's case: "Password123", with a length score, a variety score, a bonus
\* and penalties of both weights, scored 20 + 30 + 16 - 28.
Wit_C5_Password123Scored ==
    /\ fn = "score_password"
    /\ arg.p = Password123
    /\ ret.result.penalty_detail =
           [sequences |-> 2, repeats |-> 0, dictionary_hits |-> 1]
    /\ ret.result.score = 38

\* The windows of SEQUENCES: the k-th alphabet, from its i-th character.
Windows ==
    {<<k, i>> \in (1..Len(SEQUENCES)) \X (1..26) : i + 2 <= Len(SEQUENCES[k])}

WindowChunk(w) == SubSeq(SEQUENCES[w[1]], w[2], w[2] + 2)

\* C6 as stated: the count of _find_sequences is the number of windows, over
\* the 4 alphabets, whose chunk or its reverse occurs in the password with
\* case ignored on both sides, the uppercase alphabet's windows included.
Cex_C6_WindowsIgnoringCase ==
    fn = "_find_sequences" =>
        ret.count = Cardinality({w \in Windows :
            \/ IsSubstring(lower(WindowChunk(w)), lower(arg.p))
            \/ IsSubstring(lower(Reverse(WindowChunk(w))), lower(arg.p))})

\* C6, amended: the count of _find_sequences is the number of (window,
\* direction) pairs, over the 4 alphabets, whose chunk (forward) or reversed
\* chunk (backward), as written in the alphabet, occurs in the lowercased
\* password: a chunk and its reverse count separately, and no window of the
\* uppercase alphabet is counted.
Thm_C6_WindowsAndDirections ==
    fn = "_find_sequences" =>
        LET hits == {x \in Windows \X {"forward", "backward"} :
                IsSubstring(IF x[2] = "forward" THEN WindowChunk(x[1])
                            ELSE Reverse(WindowChunk(x[1])),
                            lower(arg.p))}
        IN  /\ ret.count = Cardinality(hits)
            /\ \A x \in hits : x[1][1] # 2

\* C6's case: a password with a run in mixed case, counted once.
Wit_C6_MixedCaseRun ==
    /\ fn = "_find_sequences"
    /\ arg.p = <<"a","b","C">>
    /\ ret.count = 1

\* C7: whatever its characters, the count of _repetition_penalty is the sum
\* of three independent checks: some character 3 or more times in a row,
\* some 2 characters followed by a copy of themselves, some 3 characters
\* followed by a copy of themselves.
Cex_C7_AnyCharacterRepeats ==
    fn = "_repetition_penalty" =>
        LET p == arg.p
            run == \E i \in 1..(Len(p) - 2) : p[i + 1] = p[i] /\ p[i + 2] = p[i]
            two == \E i \in 1..(Len(p) - 3) :
                       SubSeq(p, i + 2, i + 3) = SubSeq(p, i, i + 1)
            three == \E i \in 1..(Len(p) - 5) :
                         SubSeq(p, i + 3, i + 5) = SubSeq(p, i, i + 2)
        IN  /\ ret.penalties \in 0..3
            /\ ret.penalties = (IF run THEN 1 ELSE 0) + (IF two THEN 1 ELSE 0)
                               + (IF three THEN 1 ELSE 0)

\* The number a string of digits denotes, below 2^31.
Value(a) ==
    LET v[i \in 0..Len(a)] == IF i = 0 THEN 0 ELSE v[i - 1] + a[i] * 10^(i - 1)
    IN  v[Len(a)]

UnitName(k) == <<"sec", "min", "hr", "day", "yr", "century">>[k]

\* The strings for the duration s in the k-th unit: s over the unit's span,
\* to the nearest hundredth, either of the two at a tie.  s is Value(s.m)
\* whole seconds or thousandths of a second, and the quotient is N / D
\* hundredths with N and D below 2^31.  The durations in thousandths are
\* below 61 seconds, which is 0.00 of a day, a year or a century.
InUnit(s, k) ==
    LET num == Value(s.m)
        N == IF s.e = 3 /\ k >= 4 THEN 0
             ELSE IF s.e = 0 /\ k <= 4 THEN 100 * num
             ELSE num
        D == CASE s.e = 3 /\ k >= 4 -> 1
               [] s.e = 3 /\ k < 4 -> 10 * <<1, 60, 3600>>[k]
               [] s.e = 0 /\ k <= 4 -> <<1, 60, 3600, 86400>>[k]
               [] s.e = 0 /\ k = 5 -> 315576
               [] s.e = 0 /\ k = 6 -> 31557600
        lo == N \div D
        twice == 2 * (N % D)
        hs == IF twice < D THEN {lo} ELSE IF twice > D THEN {lo + 1} ELSE {lo, lo + 1}
    IN  {ToString(h \div 100) \o "." \o ToString((h \div 10) % 10)
             \o ToString(h % 10) \o " " \o UnitName(k) : h \in hs}

\* The whole seconds of s.
Floor(s) == Value(s.m) \div 10^s.e

\* C8 as stated: humanize gives s in the largest unit with s < 60 * span.
\* Every duration of the model is below 60 centuries, so that is century.
Cex_C8_LargestUnit ==
    fn = "humanize" => ret.text \in InUnit(arg.s, 6)

\* C8, amended: humanize gives s in the first (smallest) unit of the list
\* with s < 60 * span, in century when there is none, as s over that span to
\* 2 decimal places followed by the unit's name.
Thm_C8_SmallestUnit ==
    fn = "humanize" =>
        LET f == Floor(arg.s)
            k == CASE f < 60 -> 1
                   [] f >= 60 /\ f < 3600 -> 2
                   [] f >= 3600 /\ f < 216000 -> 3
                   [] f >= 216000 /\ f < 5184000 -> 4
                   [] f >= 5184000 /\ f < 1893456000 -> 5
                   [] f >= 1893456000 -> 6
        IN  ret.text \in InUnit(arg.s, k)

\* C8's case: an hour, which is below 60 hours, 60 days, 60 years and 60
\* centuries, and is given in hours.
Wit_C8_OneHour ==
    /\ fn = "humanize"
    /\ arg.s = [m |-> <<0, 0, 6, 3>>, e |-> 0]
    /\ ret.text = "1.00 hr"

LengthMessage == "Use at least 8-12 characters."

\* The pattern and class messages, in the order of the claim, each with
\* whether it is due for the password p and the penalty detail d.
Advice(p, d) ==
    << <<"Avoid sequential patterns (e.g., abc, 123, qwerty).", d.sequences > 0>>,
       <<"Avoid repeated patterns like aaa or abcabc.", d.repeats > 0>>,
       <<"Avoid common or leetspeak words (e.g., 'p@ssw0rd').",
         d.dictionary_hits > 0>>,
       <<"Add uppercase letters.", "upper" \notin ClassesPresent(p)>>,
       <<"Add lowercase letters.", "lower" \notin ClassesPresent(p)>>,
       <<"Add digits.", "digit" \notin ClassesPresent(p)>>,
       <<"Add symbols (e.g., !@#$).", "symbol" \notin ClassesPresent(p)>> >>

IsDue(a) == a[2]

IsNotLengthMessage(x) == x # LengthMessage

\* C9: for a non-empty password the feedback is, in this order, the sequence
\* warning iff sequences > 0, the repetition warning iff repetitions > 0, the
\* dictionary warning iff dictionaryHits > 0, then a message for each absent
\* class in the order uppercase, lowercase, digit, symbol; the length message
\* is there iff the length is below 6; and there is nothing else.
Thm_C9_FeedbackOrder ==
    (fn = "score_password" /\ arg.p # <<>>) =>
        LET fb == ret.result.feedback
            due == SelectSeq(Advice(arg.p, ret.result.penalty_detail), IsDue)
            lengthAt == {i \in 1..Len(fb) : fb[i] = LengthMessage}
        IN  /\ SelectSeq(fb, IsNotLengthMessage) = [i \in 1..Len(due) |-> due[i][1]]
            /\ Cardinality(lengthAt) = IF Len(arg.p) < 6 THEN 1 ELSE 0

\* C9's case: a short password with a run and three classes absent.
Wit_C9_ShortRun ==
    /\ fn = "score_password"
    /\ arg.p = <<"a","b","c">>
    /\ ret.result.feedback =
           << LengthMessage,
              "Avoid sequential patterns (e.g., abc, 123, qwerty).",
              "Add uppercase letters.", "Add digits.",
              "Add symbols (e.g., !@#$)." >>

\* C10: for a non-empty password of any characters at least one of the four
\* classes is detected, so the pool is the sum of 26, 26, 10, 33 over the
\* detected classes, at least 10, and the entropy is above 0.
Cex_C10_SomeClassDetected ==
    (fn = "estimate_entropy_bits" /\ arg.p # <<>>) =>
        /\ ClassesPresent(arg.p) # {}
        /\ ret.bits.pool >= 10
        /\ BitsMicro(ret.bits) > 0

=============================================================================
